---- MODULE Spec2Model ----
(***************************************************************************)
(* Model of organize.py: schema validation, the path transformer and the   *)
(* copy loop of main().                                                    *)
(*                                                                         *)
(* A string is a sequence of one-character strings; a relative path, as    *)
(* pathlib holds it, is a sequence of components (each a string).          *)
(***************************************************************************)
EXTENDS Integers, Sequences, FiniteSets, TLC

VARIABLES platform, inputKeys, outputKeys, argc, tree, dst0,
          pc, files, i, dst, dirs,
          fileCopiedCount, fileIgnoredCount, fileSkippedCount, copyErrorCount,
          log, stdout, run, prev,
          configError, relativePath, result, back

vars == <<platform, inputKeys, outputKeys, argc, tree, dst0,
          pc, files, i, dst, dirs,
          fileCopiedCount, fileIgnoredCount, fileSkippedCount, copyErrorCount,
          log, stdout, run, prev,
          configError, relativePath, result, back>>

(* ---------------------------- bounds ----------------------------------- *)
\* most files in the source tree
MaxFiles == 2
\* most components of a source file's relative path
MaxDepth == 2
\* most names in a schema handed to the transformer alone
MaxKeys == 2
\* most components of a path handed to the transformer alone
MaxParts == 3

(* ---------------------------- characters ------------------------------- *)
BS == "\\"
FS == "/"
LF == "\n"

\* what Python's str(path) puts between components: os.sep of the flavour
Sep(p) == IF p = "nt" THEN BS ELSE FS

Letters == {"a", "b", "c", "x", "y"}
Digits == {"1"}
\* the characters the regex class \w accepts
WordChars == Letters \cup Digits \cup {"_"}

Range(s) == {s[k] : k \in 1..Len(s)}

\* Python's None where a string is expected
None == <<"None">>
\* Python's None where a match (the list of captured groups) is expected
NoMatch == <<None>>

RECURSIVE Join(_, _)
\* sep.join(parts)
Join(parts, sep) ==
  IF Len(parts) = 0 THEN <<>>
  ELSE IF Len(parts) = 1 THEN parts[1]
  ELSE parts[1] \o <<sep>> \o Join(Tail(parts), sep)

RECURSIVE SplitFrom(_, _, _, _)
SplitFrom(s, sep, k, cur) ==
  IF k > Len(s) THEN <<cur>>
  ELSE IF s[k] = sep THEN <<cur>> \o SplitFrom(s, sep, k + 1, <<>>)
  ELSE SplitFrom(s, sep, k + 1, Append(cur, s[k]))

\* s.split(sep): the pieces of s between occurrences of sep
Split(s, sep) == SplitFrom(s, sep, 1, <<>>)

\* str(relativePath) for a pathlib path of the given flavour
Str(p, comps) == Join(comps, Sep(p))

(* ---------------------------- validation ------------------------------- *)
\* re.match(r"^\w+$", key): one or more word characters; "$" also matches
\* just before a newline that ends the string
MatchWord(key) ==
  LET body == IF Len(key) > 0 /\ key[Len(key)] = LF
              THEN SubSeq(key, 1, Len(key) - 1) ELSE key
  IN  Len(body) > 0 /\ \A k \in 1..Len(body) : body[k] \in WordChars

\* list.count(key)
Count(keys, key) == Cardinality({k \in 1..Len(keys) : keys[k] = key})

OK == [kind |-> "ok", key |-> <<>>]

\* the assertion that fails for inputKeys[k], or OK
InputKeyCheck(I, k) ==
  IF ~MatchWord(I[k]) THEN [kind |-> "invalid", key |-> I[k]]
  ELSE IF Count(I, I[k]) # 1 THEN [kind |-> "duplicate", key |-> I[k]]
  ELSE OK

\* the assertion that fails for outputKeys[k], or OK
OutputKeyCheck(I, O, k) ==
  IF ~MatchWord(O[k]) THEN [kind |-> "invalid", key |-> O[k]]
  ELSE IF O[k] \notin Range(I) THEN [kind |-> "missing", key |-> O[k]]
  ELSE OK

\* the first failing assertion of the for loop, or OK
validateInputKeysConfig(I) ==
  LET bad == {k \in 1..Len(I) : InputKeyCheck(I, k) # OK}
  IN  IF bad = {} THEN OK
      ELSE InputKeyCheck(I, CHOOSE k \in bad : \A j \in bad : k <= j)

validateOutputKeysConfig(I, O) ==
  LET bad == {k \in 1..Len(O) : OutputKeyCheck(I, O, k) # OK}
  IN  IF bad = {} THEN OK
      ELSE OutputKeyCheck(I, O, CHOOSE k \in bad : \A j \in bad : k <= j)

\* the try block of the module: input keys first, then output keys
Validation(I, O) ==
  IF validateInputKeysConfig(I) # OK THEN validateInputKeysConfig(I)
  ELSE validateOutputKeysConfig(I, O)

(* ---------------------------- path transformer ------------------------- *)
\* str.isidentifier(), which re.compile requires of a group name
IsIdentifier(key) ==
  /\ Len(key) > 0
  /\ key[1] \in Letters \cup {"_"}
  /\ \A k \in 1..Len(key) : key[k] \in WordChars

\* re.compile of the pattern built from the keys succeeds: every group name
\* is an identifier and no group name is defined twice
CompileOK(I) ==
  /\ \A k \in 1..Len(I) : IsIdentifier(I[k])
  /\ \A j, k \in 1..Len(I) : I[j] = I[k] => j = k

\* inputPathRegex.match(s): the captured groups in order, or NoMatch.
\* ^\\? then len(I) groups [^\\/]+ separated by a backslash, then $
RegexMatch(I, s) ==
  LET rest  == IF Len(s) > 0 /\ s[1] = BS THEN Tail(s) ELSE s
      parts == Split(rest, BS)
  IN  IF Len(I) = 0
      THEN IF rest = <<>> \/ rest = <<LF>> THEN <<>> ELSE NoMatch
      ELSE IF /\ Len(parts) = Len(I)
              /\ \A k \in 1..Len(parts) :
                    Len(parts[k]) > 0 /\ FS \notin Range(parts[k])
           THEN parts ELSE NoMatch

\* position of a key in the input keys (the group it names)
IndexOf(I, key) == CHOOSE k \in 1..Len(I) : I[k] = key

RECURSIVE Project(_, _, _)
\* [parts[key] for key in outputKeys if key in parts]
Project(I, O, groups) ==
  IF Len(O) = 0 THEN <<>>
  ELSE IF O[1] \in Range(I)
       THEN <<groups[IndexOf(I, O[1])]>> \o Project(I, Tail(O), groups)
       ELSE Project(I, Tail(O), groups)

\* transformFunction(relativePath) for the matcher compiled from I
transformFunction(I, O, s) ==
  LET groups == RegexMatch(I, s)
  IN  IF groups = NoMatch \/ groups = <<>> THEN None
      ELSE Join(Project(I, O, groups), FS)

(* ---------------------------- environment ------------------------------ *)
\* schema pairs the two module constants are set to
Configs ==
  { << <<<<"a">>, <<"b">>>>, <<<<"b">>, <<"a">>>> >>,
    << <<<<"a">>, <<"b">>>>, <<<<"b">>>> >>,
    << <<<<"a">>>>, <<<<"a">>, <<"a">>>> >>,
    << <<<<"a">>>>, <<>> >>,
    << <<<<"1", "a">>>>, <<<<"1", "a">>>> >>,
    << <<<<"a", LF>>>>, <<<<"a", LF>>>> >>,
    << <<<<"a">>>>, <<<<"c">>>> >>,
    << <<<<"a">>, <<"a">>>>, <<<<"a">>>> >>,
    << <<<<"a">>, <<"-">>>>, <<<<"a">>>> >>,
    << <<<<"a">>>>, <<<<"a">>, <<>>>> >> }

\* file names a directory of the flavour can hold
FileNames == {<<"x">>, <<"y">>}

\* sequences over S of length lo..hi
SeqsOf(S, lo, hi) == UNION {[1..n -> S] : n \in lo..hi}

\* relative paths of the files under the source root
TreePaths == SeqsOf(FileNames, 1, MaxDepth)

\* path f lies below path g taken as a directory
Below(f, g) == Len(f) > Len(g) /\ SubSeq(f, 1, Len(g)) = g

\* what glob can return: the files of a tree, in some order (no file twice,
\* and no file is at once a directory holding another)
Trees ==
  {t \in SeqsOf(TreePaths, 0, MaxFiles) :
      \A j, k \in 1..Len(t) :
         (t[j] = t[k] => j = k) /\ ~Below(t[j], t[k])}

Old == <<"old">>
Partial == <<"partial">>
EmptyFS == [q \in {} |-> Old]

\* destination trees found at start: empty, or one file already there
PreExisting ==
  {EmptyFS, [q \in {<<"y", FS, "x">>} |-> Old], [q \in {<<"x">>} |-> Old]}

\* the directories above a destination path, the destination root (<<>>)
\* included
Ancestors(d) ==
  LET comps == Split(d, FS)
  IN  {Join(SubSeq(comps, 1, n), FS) : n \in 0..(Len(comps) - 1)}

\* destination.parent
Parent(d) ==
  LET comps == Split(d, FS) IN Join(SubSeq(comps, 1, Len(comps) - 1), FS)

NoPrev ==
  [dst |-> EmptyFS, dirs |-> {}, stdout |-> <<>>,
   copied |-> 0, ignored |-> 0, skipped |-> 0, errors |-> 0]

Init ==
  /\ platform \in {"nt", "posix"}
  /\ \E c \in Configs : inputKeys = c[1] /\ outputKeys = c[2]
  /\ argc \in {2, 3}
  /\ tree \in Trees
  /\ dst0 \in PreExisting
  /\ dst = dst0
  /\ dirs = UNION {Ancestors(d) : d \in DOMAIN dst0}
  /\ pc = "start"
  /\ files = <<>>
  /\ i = 0
  /\ fileCopiedCount = 0
  /\ fileIgnoredCount = 0
  /\ fileSkippedCount = 0
  /\ copyErrorCount = 0
  /\ log = <<>>
  /\ stdout = <<>>
  /\ run = 1
  /\ prev = NoPrev
  /\ configError = OK
  /\ relativePath = <<>>
  /\ result = None
  /\ back = None

(* ---------------------------- module start ----------------------------- *)
\* lines 32-35: both validators return, the module goes on to main()
ValidationPasses ==
  /\ pc = "start"
  /\ Validation(inputKeys, outputKeys) = OK
  /\ pc' = "main"
  /\ UNCHANGED <<platform, inputKeys, outputKeys, argc, tree, dst0, files, i,
                 dst, dirs, fileCopiedCount, fileIgnoredCount,
                 fileSkippedCount, copyErrorCount, log, stdout, run, prev,
                 relativePath, result, back, configError>>

\* ValidationFails without the exit(): the module goes on to main()
ValidationFailsGoesOn ==
  /\ pc = "start"
  /\ Validation(inputKeys, outputKeys) # OK
  /\ configError' = Validation(inputKeys, outputKeys)
  /\ pc' = "main"
  /\ UNCHANGED <<platform, inputKeys, outputKeys, argc, tree, dst0, files, i,
                 dst, dirs, fileCopiedCount, fileIgnoredCount,
                 fileSkippedCount, copyErrorCount, log, stdout, run, prev,
                 relativePath, result, back>>

\* lines 36-41: an AssertionError is caught, printed, and exit() is called
ValidationFails ==
  /\ pc = "start"
  /\ Validation(inputKeys, outputKeys) # OK
  /\ configError' = Validation(inputKeys, outputKeys)
  /\ pc' = "exited"
  /\ UNCHANGED <<platform, inputKeys, outputKeys, argc, tree, dst0, files, i,
                 dst, dirs, fileCopiedCount, fileIgnoredCount,
                 fileSkippedCount, copyErrorCount, log, stdout, run, prev,
                 relativePath, result, back>>

(* ---------------------------- main: set-up ----------------------------- *)
\* lines 85-88: the log file is opened with mode "w", the matcher compiles
CompileSucceeds ==
  /\ pc = "main"
  /\ CompileOK(inputKeys)
  /\ log' = <<>>
  /\ pc' = "roots"
  /\ UNCHANGED <<platform, inputKeys, outputKeys, argc, tree, dst0, files, i,
                 dst, dirs, fileCopiedCount, fileIgnoredCount,
                 fileSkippedCount, copyErrorCount, stdout, run, prev,
                 relativePath, result, back, configError>>

\* lines 85-88: re.compile raises re.error, which nothing catches
CompileRaises ==
  /\ pc = "main"
  /\ ~CompileOK(inputKeys)
  /\ log' = <<>>
  /\ pc' = "crashed"
  /\ UNCHANGED <<platform, inputKeys, outputKeys, argc, tree, dst0, files, i,
                 dst, dirs, fileCopiedCount, fileIgnoredCount,
                 fileSkippedCount, copyErrorCount, stdout, run, prev,
                 relativePath, result, back, configError>>

\* line 89, getRootsFromCommandLine with two arguments
getRootsFromCommandLine ==
  /\ pc = "roots"
  /\ argc = 3
  /\ pc' = "list"
  /\ UNCHANGED <<platform, inputKeys, outputKeys, argc, tree, dst0, files, i,
                 dst, dirs, fileCopiedCount, fileIgnoredCount,
                 fileSkippedCount, copyErrorCount, log, stdout, run, prev,
                 relativePath, result, back, configError>>

\* line 89, getRootsFromCommandLine prints the usage and calls exit()
UsageExit ==
  /\ pc = "roots"
  /\ argc # 3
  /\ pc' = "exited"
  /\ UNCHANGED <<platform, inputKeys, outputKeys, argc, tree, dst0, files, i,
                 dst, dirs, fileCopiedCount, fileIgnoredCount,
                 fileSkippedCount, copyErrorCount, log, stdout, run, prev,
                 relativePath, result, back, configError>>

\* lines 90-95: the source tree is enumerated and the tallies start at 0
getAllFilesInDirectory ==
  /\ pc = "list"
  /\ files' = tree
  /\ i' = 0
  /\ fileCopiedCount' = 0
  /\ fileIgnoredCount' = 0
  /\ fileSkippedCount' = 0
  /\ copyErrorCount' = 0
  /\ pc' = "loop"
  /\ UNCHANGED <<platform, inputKeys, outputKeys, argc, tree, dst0, dst,
                 dirs, log, stdout, run, prev, relativePath, result, back,
                 configError>>

(* ---------------------------- main: the loop --------------------------- *)
\* line 97: the file the loop is at
file == files[i + 1]

\* lines 98-99
destinationRelativePath ==
  transformFunction(inputKeys, outputKeys, Str(platform, file))

\* line 101: None and the empty string are both false
Truthy(d) == d # None /\ d # <<>>

\* Exists with the test of line 104 lost: nothing is ever found there
ExistsNever(d) == d \in {}

\* line 104: destinationAbsolutePath.exists()
Exists(d) == d \in DOMAIN dst

\* one record of log.txt
Record(level, msg, k, err) ==
  [level |-> level, msg |-> msg, file |-> k, err |-> err]

\* the content copy2 gives the destination: that of the source file
Content(f) == Str(platform, f)

\* lines 123-126
IgnoreFile ==
  /\ pc = "loop" /\ i < Len(files)
  /\ ~Truthy(destinationRelativePath)
  /\ log' = Append(log, Record("WARNING", "Ignore file", i + 1, ""))
  /\ stdout' = Append(stdout, "!")
  /\ fileIgnoredCount' = fileIgnoredCount + 1
  /\ i' = i + 1
  /\ UNCHANGED <<platform, inputKeys, outputKeys, argc, tree, dst0, pc,
                 files, dst, dirs, fileCopiedCount, fileSkippedCount,
                 copyErrorCount, run, prev, relativePath, result, back,
                 configError>>

\* SkipFile that copies over the destination all the same
SkipFileOverwrites ==
  /\ pc = "loop" /\ i < Len(files)
  /\ Truthy(destinationRelativePath)
  /\ destinationRelativePath \in DOMAIN dst
  /\ dst' = [dst EXCEPT ![destinationRelativePath] = Content(file)]
  /\ log' = Append(log, Record("WARNING", "Skip file", i + 1, ""))
  /\ stdout' = Append(stdout, "-")
  /\ fileSkippedCount' = fileSkippedCount + 1
  /\ i' = i + 1
  /\ UNCHANGED <<platform, inputKeys, outputKeys, argc, tree, dst0, pc,
                 files, dirs, fileCopiedCount, fileIgnoredCount,
                 copyErrorCount, run, prev, relativePath, result, back,
                 configError>>

\* lines 117-122
SkipFile ==
  /\ pc = "loop" /\ i < Len(files)
  /\ Truthy(destinationRelativePath)
  /\ Exists(destinationRelativePath)
  /\ log' = Append(log, Record("WARNING", "Skip file", i + 1, ""))
  /\ stdout' = Append(stdout, "-")
  /\ fileSkippedCount' = fileSkippedCount + 1
  /\ i' = i + 1
  /\ UNCHANGED <<platform, inputKeys, outputKeys, argc, tree, dst0, pc,
                 files, dst, dirs, fileCopiedCount, fileIgnoredCount,
                 copyErrorCount, run, prev, relativePath, result, back,
                 configError>>

\* lines 105-109 and 114-116 with copyFile (69-74): the parent directories
\* are made if missing and copy2 writes the destination
CopySucceeds ==
  /\ pc = "loop" /\ i < Len(files)
  /\ Truthy(destinationRelativePath)
  /\ ~Exists(destinationRelativePath)
  /\ dirs' = dirs \cup Ancestors(destinationRelativePath)
  /\ dst' = (destinationRelativePath :> Content(file)) @@ dst
  /\ log' = Append(log, Record("INFO", "Copy", i + 1, ""))
  /\ stdout' = Append(stdout, "+")
  /\ fileCopiedCount' = fileCopiedCount + 1
  /\ i' = i + 1
  /\ UNCHANGED <<platform, inputKeys, outputKeys, argc, tree, dst0, pc,
                 files, fileIgnoredCount, fileSkippedCount, copyErrorCount,
                 run, prev, relativePath, result, back, configError>>

\* what a failing copyFile can leave behind: mkdir raised (nothing made, or
\* only directories above the parent), or copy2 raised before or after it
\* created the destination file
FailureEffects(d) ==
  LET above == Ancestors(Parent(d)) IN
  (IF Parent(d) \notin dirs
   THEN {[err |-> "mkdir", dirs |-> dirs, dst |-> dst],
         [err |-> "mkdir", dirs |-> dirs \cup above, dst |-> dst]}
   ELSE {})
  \cup {[err |-> "copy2", dirs |-> dirs \cup Ancestors(d), dst |-> dst],
        [err |-> "copy2", dirs |-> dirs \cup Ancestors(d),
         dst |-> (d :> Partial) @@ dst]}

\* CopyFails with the except clause of line 110 missing: the error
\* propagates out of main
CopyFailsUncaught ==
  /\ pc = "loop" /\ i < Len(files)
  /\ Truthy(destinationRelativePath)
  /\ ~Exists(destinationRelativePath)
  /\ \E e \in FailureEffects(destinationRelativePath) :
        /\ dirs' = e.dirs
        /\ dst' = e.dst
  /\ log' = Append(log, Record("INFO", "Copy", i + 1, ""))
  /\ pc' = "crashed"
  /\ UNCHANGED <<platform, inputKeys, outputKeys, argc, tree, dst0, files, i,
                 fileCopiedCount, fileIgnoredCount, fileSkippedCount,
                 copyErrorCount, stdout, run, prev, relativePath, result,
                 back, configError>>

\* CopyFails with the "Copy" record written only after a copy that worked:
\* a failed copy logs its error alone
CopyFailsLogsErrorOnly ==
  /\ pc = "loop" /\ i < Len(files)
  /\ Truthy(destinationRelativePath)
  /\ ~Exists(destinationRelativePath)
  /\ \E e \in FailureEffects(destinationRelativePath) :
        /\ dirs' = e.dirs
        /\ dst' = e.dst
        /\ log' = Append(log, Record("ERROR", "Error copying", i + 1, e.err))
  /\ stdout' = Append(stdout, "E")
  /\ copyErrorCount' = copyErrorCount + 1
  /\ i' = i + 1
  /\ UNCHANGED <<platform, inputKeys, outputKeys, argc, tree, dst0, pc,
                 files, fileCopiedCount, fileIgnoredCount, fileSkippedCount,
                 run, prev, relativePath, result, back, configError>>

\* lines 105-113: copyFile raises IOError or SameFileError, which is caught
CopyFails ==
  /\ pc = "loop" /\ i < Len(files)
  /\ Truthy(destinationRelativePath)
  /\ ~Exists(destinationRelativePath)
  /\ \E e \in FailureEffects(destinationRelativePath) :
        /\ dirs' = e.dirs
        /\ dst' = e.dst
        /\ log' = log \o <<Record("INFO", "Copy", i + 1, ""),
                           Record("ERROR", "Error copying", i + 1, e.err)>>
  /\ stdout' = Append(stdout, "E")
  /\ copyErrorCount' = copyErrorCount + 1
  /\ i' = i + 1
  /\ UNCHANGED <<platform, inputKeys, outputKeys, argc, tree, dst0, pc,
                 files, fileCopiedCount, fileIgnoredCount, fileSkippedCount,
                 run, prev, relativePath, result, back, configError>>

\* lines 128-133: the loop is over, the four counts are printed
Summary ==
  /\ pc = "loop" /\ i = Len(files)
  /\ pc' = "done"
  /\ UNCHANGED <<platform, inputKeys, outputKeys, argc, tree, dst0, files, i,
                 dst, dirs, fileCopiedCount, fileIgnoredCount,
                 fileSkippedCount, copyErrorCount, log, stdout, run, prev,
                 relativePath, result, back, configError>>

\* the program is started a second time on the same source and destination
Rerun ==
  /\ pc = "done" /\ run = 1
  /\ run' = 2
  /\ prev' = [dst |-> dst, dirs |-> dirs, stdout |-> stdout,
              copied |-> fileCopiedCount, ignored |-> fileIgnoredCount,
              skipped |-> fileSkippedCount, errors |-> copyErrorCount]
  /\ pc' = "start"
  /\ files' = <<>>
  /\ i' = 0
  /\ stdout' = <<>>
  /\ fileCopiedCount' = 0
  /\ fileIgnoredCount' = 0
  /\ fileSkippedCount' = 0
  /\ copyErrorCount' = 0
  /\ UNCHANGED <<platform, inputKeys, outputKeys, argc, tree, dst0, dst,
                 dirs, log, relativePath, result, back, configError>>

Next ==
  \/ ValidationPasses
  \/ ValidationFails
  \/ CompileSucceeds
  \/ CompileRaises
  \/ getRootsFromCommandLine
  \/ UsageExit
  \/ getAllFilesInDirectory
  \/ IgnoreFile
  \/ SkipFile
  \/ CopySucceeds
  \/ CopyFails
  \/ Summary
  \/ Rerun

Spec == Init /\ [][Next]_vars

(* ---------------------------- the transformer alone -------------------- *)
\* names the two schemas handed to getTransformPathFunction are made of
KeyNames == {<<"a">>, <<"b">>, <<"1">>}

\* components of the paths handed to transformFunction: a file name, or
\* nothing between two separators
PartNames == FileNames \cup {<<>>}

InitT ==
  /\ platform \in {"nt", "posix"}
  /\ inputKeys \in SeqsOf(KeyNames, 0, MaxKeys)
  /\ outputKeys \in SeqsOf(KeyNames, 0, MaxKeys)
  /\ \E comps \in SeqsOf(PartNames, 1, MaxParts), lead \in BOOLEAN :
        relativePath = (IF lead THEN <<Sep(platform)>> ELSE <<>>)
                          \o Str(platform, comps)
  /\ pc = "t_start"
  /\ result = None
  /\ back = None
  /\ argc = 3
  /\ tree = <<>>
  /\ dst0 = EmptyFS
  /\ dst = EmptyFS
  /\ dirs = {}
  /\ files = <<>>
  /\ i = 0
  /\ fileCopiedCount = 0
  /\ fileIgnoredCount = 0
  /\ fileSkippedCount = 0
  /\ copyErrorCount = 0
  /\ log = <<>>
  /\ stdout = <<>>
  /\ run = 1
  /\ prev = NoPrev
  /\ configError = OK

\* lines 53-56 raise: re.compile rejects a group name
getTransformPathFunctionRaises ==
  /\ pc = "t_start"
  /\ ~CompileOK(inputKeys)
  /\ pc' = "t_raised"
  /\ UNCHANGED <<platform, inputKeys, outputKeys, argc, tree, dst0, files, i,
                 dst, dirs, fileCopiedCount, fileIgnoredCount,
                 fileSkippedCount, copyErrorCount, log, stdout, run, prev,
                 configError, relativePath, result, back>>

\* lines 53-64: getTransformPathFunction(inputKeys, outputKeys)(relativePath)
ApplyTransform ==
  /\ pc = "t_start"
  /\ CompileOK(inputKeys)
  /\ result' = transformFunction(inputKeys, outputKeys, relativePath)
  /\ pc' = "t_done"
  /\ UNCHANGED <<platform, inputKeys, outputKeys, argc, tree, dst0, files, i,
                 dst, dirs, fileCopiedCount, fileIgnoredCount,
                 fileSkippedCount, copyErrorCount, log, stdout, run, prev,
                 configError, relativePath, back>>

\* lines 53-64 with the schemas exchanged, applied to the rebuilt path:
\* getTransformPathFunction(outputKeys, inputKeys)(result)
ApplyInverse ==
  /\ pc = "t_done"
  /\ result # None
  /\ CompileOK(outputKeys)
  /\ back' = transformFunction(outputKeys, inputKeys, result)
  /\ pc' = "t_back"
  /\ UNCHANGED <<platform, inputKeys, outputKeys, argc, tree, dst0, files, i,
                 dst, dirs, fileCopiedCount, fileIgnoredCount,
                 fileSkippedCount, copyErrorCount, log, stdout, run, prev,
                 configError, relativePath, result>>

NextT ==
  \/ getTransformPathFunctionRaises
  \/ ApplyTransform
  \/ ApplyInverse

SpecT == InitT /\ [][NextT]_vars

(* ======================= properties ==================================== *)
\* the components of the path handed to transformFunction, as the flavour
\* separates them, one leading separator dropped
PathComponents ==
  LET sep  == Sep(platform)
      rest == IF Len(relativePath) > 0 /\ relativePath[1] = sep
              THEN Tail(relativePath) ELSE relativePath
  IN  Split(rest, sep)

\* C1: transformFunction returns a rebuilt path exactly for the paths that,
\* one leading separator aside, have len(inputKeys) non-empty components,
\* and None for every other path.
C1_MatchIffArity ==
  pc \in {"t_done", "t_back"} =>
    ((result # None) <=>
       /\ Len(PathComponents) = Len(inputKeys)
       /\ \A k \in 1..Len(PathComponents) : Len(PathComponents[k]) > 0)

\* C2: when transformFunction matches, the result is the path's components
\* picked in the order of outputKeys (the i-th is the component at the
\* position outputKeys[i] has in inputKeys) and joined with "/"; and for
\* inputKeys [a, b], outputKeys [b, a], the path x/y gives y/x.
C2_ProjectionInOutputOrder ==
  (pc \in {"t_done", "t_back"} /\ Range(outputKeys) \subseteq Range(inputKeys))
  =>
    /\ result # None =>
          /\ Len(PathComponents) = Len(inputKeys)
          /\ result =
                Join([k \in 1..Len(outputKeys) |->
                        PathComponents[IndexOf(inputKeys, outputKeys[k])]], FS)
          /\ Len(Split(result, FS)) = Len(outputKeys) \/ outputKeys = <<>>
    /\ ( /\ inputKeys = <<<<"a">>, <<"b">>>>
         /\ outputKeys = <<<<"b">>, <<"a">>>>
         /\ relativePath = Str(platform, <<<<"x">>, <<"y">>>>) )
        => result = <<"y", FS, "x">>

\* outputKeys is inputKeys reordered, no name twice
IsPermutation ==
  /\ Len(outputKeys) = Len(inputKeys)
  /\ Range(outputKeys) = Range(inputKeys)
  /\ \A j, k \in 1..Len(inputKeys) : inputKeys[j] = inputKeys[k] => j = k

\* C9: when outputKeys is a permutation of inputKeys, transforming a
\* matching path and then transforming the result with the two schemas
\* exchanged matches and gives back the path's components in their order.
C9_RoundTrip ==
  (pc = "t_back" /\ IsPermutation) =>
    /\ back # None
    /\ Split(back, FS) = RegexMatch(inputKeys, relativePath)

\* the name is non-empty and made of [A-Za-z0-9_] only
WellFormed(key) ==
  Len(key) > 0 /\ \A k \in 1..Len(key) : key[k] \in WordChars

\* the keys of inputKeys then outputKeys that break a rule of the schema
Offenders ==
  LET all == inputKeys \o outputKeys
  IN  {k \in 1..Len(all) :
        \/ ~WellFormed(all[k])
        \/ k <= Len(inputKeys) /\ Count(inputKeys, all[k]) # 1
        \/ k > Len(inputKeys) /\ all[k] \notin Range(inputKeys)}

\* C6: validation passes exactly when every name is non-empty and made of
\* [A-Za-z0-9_], inputKeys has no name twice and every name of outputKeys
\* is in inputKeys; otherwise the error names the first offending key.
C6_ValidationIffWellFormed ==
  pc # "start" =>
    /\ (configError = OK) <=> (Offenders = {})
    /\ configError # OK =>
         configError.key =
           (inputKeys \o outputKeys)
             [CHOOSE k \in Offenders : \A j \in Offenders : k <= j]

\* C10: once validation has passed, main gets to its first file without
\* raising: the matcher compiles for every schema validation accepts.
C10_ValidatedSchemaCompiles ==
  (pc # "start" /\ configError = OK) => pc # "crashed"

\* the destination as the current run found it
RunStartDst == IF run = 1 THEN dst0 ELSE prev.dst
RunStartDirs ==
  IF run = 1 THEN UNION {Ancestors(d) : d \in DOMAIN dst0} ELSE prev.dirs

\* the run has enumerated nothing, created nothing and copied nothing
Untouched ==
  /\ files = <<>> /\ i = 0 /\ stdout = <<>>
  /\ dst = RunStartDst /\ dirs = RunStartDirs
  /\ run = 1 => log = <<>>

\* C5: nothing is enumerated, created or copied before validation is over,
\* and when validation fails the process exits having touched nothing.
C5_ValidationBeforeFiles ==
  /\ pc = "start" => Untouched
  /\ (pc # "start" /\ Validation(inputKeys, outputKeys) # OK) =>
        pc = "exited" /\ Untouched

\* a run exited on a schema whose output names a key inputKeys lacks, with
\* files waiting in the source tree
C5_Witness ==
  /\ pc = "exited" /\ configError.kind = "missing"
  /\ argc = 3 /\ Len(tree) > 0

C4_EveryFileTallied ==
  /\ fileCopiedCount + fileIgnoredCount + fileSkippedCount
        + copyErrorCount = i
  /\ Len(stdout) = i
  /\ pc = "done" => i = Len(files)
  /\ pc = "loop" => i <= Len(files)
  /\ pc = "crashed" => files = <<>> /\ i = 0

\* a run that reached the summary after the copy of its first file failed
C4_Witness ==
  /\ pc = "done" /\ Len(files) = MaxFiles
  /\ stdout[1] = "E" /\ copyErrorCount + fileCopiedCount = MaxFiles

LevelsOf(k) ==
  LET recs == SelectSeq(log, LAMBDA r : r.file = k)
  IN  [n \in 1..Len(recs) |-> recs[n].level]

\* C8 as stated: each file handled has exactly one log record: INFO when
\* it was copied, WARNING when skipped or ignored, ERROR when the copy
\* failed.
C8_OneRecordPerFile ==
  \A k \in 1..i :
    LevelsOf(k) = IF stdout[k] = "+" THEN <<"INFO">>
                  ELSE IF stdout[k] = "E" THEN <<"ERROR">>
                  ELSE <<"WARNING">>

\* C8 amended: a skipped or ignored file has one WARNING record, a copied
\* file one INFO "Copy" record, and a file whose copy failed has two: the
\* INFO "Copy" record written before the attempt, then an ERROR record with
\* the I/O error.
C8_RecordsByOutcome ==
  \A k \in 1..i :
    /\ LevelsOf(k) = IF stdout[k] = "+" THEN <<"INFO">>
                     ELSE IF stdout[k] = "E" THEN <<"INFO", "ERROR">>
                     ELSE <<"WARNING">>
    /\ \A n \in 1..Len(log) :
         log[n].file = k =>
           /\ (log[n].level = "ERROR") <=> (log[n].err # "")
           /\ (log[n].level = "INFO") <=> (log[n].msg = "Copy")

\* a run that reached the summary with one copy failed and one done
C8_Witness ==
  /\ pc = "done" /\ "E" \in Range(stdout) /\ "+" \in Range(stdout)

====
